---------------------------- MODULE Spec2Model ----------------------------
(***************************************************************************)
(* URIFS, the URI to file system mapper of court/util/urifs.py.            *)
(*                                                                         *)
(* A string is a sequence of one-character strings.  The rule table        *)
(* REWRITE_PATTERNS is a sequence of rules; each regular expression of the *)
(* table is modelled by an operator giving the length of its match at a    *)
(* position (0: no match there) and by the expansion of its replacement    *)
(* template; re.sub is the left-to-right scan over non-overlapping matches.*)
(***************************************************************************)
EXTENDS Integers, Sequences, FiniteSets, TLC

VARIABLES
    pc,       \* "start", "forward", "again", "done": position in the run
    mode,     \* "test": the doctest's test(uri); "-f": __main__ with -f
    uri,      \* the URI handed to uri_to_fspath
    pathsep,  \* the pathsep argument, a non-empty string
    path,     \* uri_to_path(uri), the rewritten string inside uri_to_fspath
    fspath,   \* the file system path (uri_to_fspath's result, or the -f argument)
    path2,    \* uri_to_path applied to path (the rule table applied twice)
    newuri    \* fspath_to_uri's result

vars == <<pc, mode, uri, pathsep, path, fspath, path2, newuri>>

----------------------------------------------------------------------------
(* Characters and strings *)

DIGITS == {"0", "1", "2", "3", "4", "5", "6", "7", "8", "9"}

HEXLOWER == DIGITS \cup {"a", "b", "c", "d", "e", "f"}

Marker == <<"^", "/">>

(* s has the string t at position i *)
StartsWith(s, i, t) ==
    /\ i + Len(t) - 1 <= Len(s)
    /\ \A k \in 1..Len(t) : s[i + k - 1] = t[k]

(* s contains t as a substring *)
Contains(s, t) == \E i \in 1..(Len(s) - Len(t) + 1) : StartsWith(s, i, t)

(* the number of positions of s at which t occurs *)
Count(s, t) == Cardinality({i \in 1..(Len(s) - Len(t) + 1) : StartsWith(s, i, t)})

----------------------------------------------------------------------------
(* The regular expressions of REWRITE_PATTERNS *)

(* the least position of M that is at least i, 0 if there is none *)
First(M, i) ==
    LET C == {j \in M : j >= i}
    IN  IF C = {} THEN 0 ELSE CHOOSE j \in C : \A k \in C : j <= k

(* the length of the longest run of characters of class cls starting at s[i] *)
ClassRun(s, i, cls) ==
    LET stop == First({j \in 1..Len(s) : s[j] \notin cls}, i)
    IN  IF i > Len(s) THEN 0
        ELSE IF stop = 0 THEN Len(s) - i + 1 ELSE stop - i

IsDigitAt(s, i) == i <= Len(s) /\ s[i] \in DIGITS

(* a literal pattern: the length of the match of exp at s[i] *)
MatchLiteral(exp, s, i) == IF StartsWith(s, i, exp) THEN Len(exp) ELSE 0

(* the pattern with {5,} for {4,} *)
MatchUuidFiveOrMore(s, i) ==
    LET n == ClassRun(s, i, HEXLOWER)
    IN  IF n >= 5 /\ i + n <= Len(s) /\ s[i + n] = "-" THEN n + 1 ELSE 0

(* ([0-9a-f]{4,}-) : the quantifier is greedy, and giving characters back
   can only leave a hex digit where the hyphen is wanted *)
MatchUuidOrYear(s, i) ==
    LET n == ClassRun(s, i, HEXLOWER)
    IN  IF n >= 4 /\ i + n <= Len(s) /\ s[i + n] = "-" THEN n + 1 ELSE 0

(* \^/(\d\d-\d\d) *)
MatchMonthDay(s, i) ==
    IF /\ StartsWith(s, i, Marker)
       /\ IsDigitAt(s, i + 2) /\ IsDigitAt(s, i + 3)
       /\ i + 4 <= Len(s) /\ s[i + 4] = "-"
       /\ IsDigitAt(s, i + 5) /\ IsDigitAt(s, i + 6)
    THEN 7 ELSE 0

(* (?:\.\d{3})? : the length of the optional fraction at s[i] *)
FractionLen(s, i) ==
    IF /\ i <= Len(s) /\ s[i] = "."
       /\ IsDigitAt(s, i + 1) /\ IsDigitAt(s, i + 2) /\ IsDigitAt(s, i + 3)
    THEN 4 ELSE 0

(* (?:[+-]\d\d?\d\d|Z) : the length of the time zone at s[i], 0 if none *)
ZoneLen(s, i) ==
    IF i > Len(s) THEN 0
    ELSE IF s[i] \in {"+", "-"}
         THEN LET k == ClassRun(s, i + 1, DIGITS)
              IN  IF k >= 4 THEN 5 ELSE IF k = 3 THEN 4 ELSE 0
         ELSE IF s[i] = "Z" THEN 1 ELSE 0

(* (T\d\d):(\d\d):(\d\d(?:\.\d{3})?(?:[+-]\d\d?\d\d|Z)) *)
MatchTime(s, i) ==
    IF /\ i + 8 <= Len(s)
       /\ s[i] = "T" /\ IsDigitAt(s, i + 1) /\ IsDigitAt(s, i + 2)
       /\ s[i + 3] = ":" /\ IsDigitAt(s, i + 4) /\ IsDigitAt(s, i + 5)
       /\ s[i + 6] = ":" /\ IsDigitAt(s, i + 7) /\ IsDigitAt(s, i + 8)
    THEN LET f == FractionLen(s, i + 9)
             z == ZoneLen(s, i + 9 + f)
         IN  IF z > 0 THEN 9 + f + z ELSE 0
    ELSE 0

SPLITCHARS == {"@", ":", "?", "!", "#"}

(* s[j] is a splitting character or one of two or more slashes in a row *)
InSplitRun(s, j) ==
    \/ s[j] \in SPLITCHARS
    \/ /\ s[j] = "/"
       /\ \/ j > 1 /\ s[j - 1] = "/"
          \/ j < Len(s) /\ s[j + 1] = "/"

(* the pattern without its slash alternative: ([@:?!#]+) *)
MatchSplitNoSlashes(s, i) == ClassRun(s, i, SPLITCHARS)

(* ((?:/{2,}|[@:?!#])+) : a run of splitting characters and of slash runs of
   two or more, each slash run taken whole; a single slash at s[i] (the last
   of a run, too) starts no match *)
MatchSplit(s, i) ==
    LET stop == First({j \in 1..Len(s) : ~InSplitRun(s, j)}, i)
    IN  IF i > Len(s) THEN 0
        ELSE IF s[i] = "/" /\ ClassRun(s, i, {"/"}) < 2 THEN 0
        ELSE IF ~InSplitRun(s, i) THEN 0
        ELSE IF stop = 0 THEN Len(s) - i + 1 ELSE stop - i

(* the template with a marker after the first colon too: \1%3A^/\2%3A^/\3 *)
ExpandTimeSplitBoth(s, i, n) ==
    SubSeq(s, i, i + 2) \o <<"%", "3", "A">> \o Marker \o SubSeq(s, i + 4, i + 5)
        \o <<"%", "3", "A">> \o Marker \o SubSeq(s, i + 7, i + n - 1)

(* \1%3A\2%3A^/\3 on a match of n characters at s[i] *)
ExpandTime(s, i, n) ==
    SubSeq(s, i, i + 2) \o <<"%", "3", "A">> \o SubSeq(s, i + 4, i + 5)
        \o <<"%", "3", "A">> \o Marker \o SubSeq(s, i + 7, i + n - 1)

----------------------------------------------------------------------------
(* The rule table *)

Literal(exp, repl) == [kind |-> "literal", exp |-> exp, repl |-> repl]

(* rules that leave their character as it is *)
RuleCaretKept == Literal(<<"^">>, <<"^">>)
RuleColonKept == Literal(<<":">>, <<":">>)
RuleSlashesKept == Literal(<<"/", "/">>, <<"/", "/">>)

RulePercent == Literal(<<"%">>, <<"%", "2", "5">>)
RuleCaret == Literal(<<"^">>, <<"%", "5", "E">>)
RuleDollar == Literal(<<"$">>, <<"%", "2", "4">>)
RulePipe == Literal(<<"|">>, <<"%", "7", "C">>)
RuleStar == Literal(<<"*">>, <<"%", "2", "A">>)
RuleAmp == Literal(<<"&">>, <<"%", "2", "6">>)
RuleUuidOrYear == [kind |-> "uuid-or-year"]
RuleMonthDay == [kind |-> "month-day"]
RuleTime == [kind |-> "time"]
RuleSplit == [kind |-> "split"]
RuleColon == Literal(<<":">>, <<"%", "3", "A">>)
RuleBang == Literal(<<"!">>, <<"%", "2", "1">>)
RuleQuestion == Literal(<<"?">>, <<"%", "3", "F">>)
RuleHash == Literal(<<"#">>, <<"%", "2", "3">>)
RuleSlashes == Literal(<<"/", "/">>, <<"%", "2", "F", "%", "2", "F">>)
RuleSlashCaret == Literal(<<"/", "^">>, <<"%", "2", "F", "^">>)

(* the table with the escape of the escapes last instead of first *)
PercentRuleLast ==
    << RuleCaret, RuleDollar, RulePipe, RuleStar, RuleAmp,
       RuleUuidOrYear, RuleMonthDay, RuleTime, RuleSplit,
       RuleColon, RuleBang, RuleQuestion, RuleHash,
       RuleSlashes, RuleSlashCaret, RulePercent >>

REWRITE_PATTERNS ==
    << RulePercent, RuleCaret, RuleDollar, RulePipe, RuleStar, RuleAmp,
       RuleUuidOrYear, RuleMonthDay, RuleTime, RuleSplit,
       RuleColon, RuleBang, RuleQuestion, RuleHash,
       RuleSlashes, RuleSlashCaret >>

(* the length of rule's match at s[i]; no pattern of the table matches the
   empty string, so 0 says there is no match *)
MatchLen(rule, s, i) ==
    CASE rule.kind = "literal"      -> MatchLiteral(rule.exp, s, i)
      [] rule.kind = "uuid-or-year" -> MatchUuidOrYear(s, i)
      [] rule.kind = "month-day"    -> MatchMonthDay(s, i)
      [] rule.kind = "time"         -> MatchTime(s, i)
      [] rule.kind = "split"        -> MatchSplit(s, i)

(* the replacement of rule's match of n characters at s[i] *)
Expand(rule, s, i, n) ==
    CASE rule.kind = "literal"      -> rule.repl
      [] rule.kind = "uuid-or-year" -> SubSeq(s, i, i + n - 1) \o Marker
      [] rule.kind = "month-day"    -> SubSeq(s, i, i + n - 1) \o Marker
      [] rule.kind = "time"         -> ExpandTime(s, i, n)
      [] rule.kind = "split"        -> SubSeq(s, i, i + n - 1) \o Marker

RECURSIVE SubFrom(_, _, _, _)
(* the scan of re.sub from s[i] on, M being the positions of s at which the
   rule's pattern matches: the leftmost match at or after i is replaced, and
   the scan goes on after it *)
SubFrom(rule, s, M, i) ==
    LET j == First(M, i)
    IN  IF j = 0 THEN SubSeq(s, i, Len(s))
        ELSE LET n == MatchLen(rule, s, j)
             IN  SubSeq(s, i, j - 1) \o Expand(rule, s, j, n)
                     \o SubFrom(rule, s, M, j + n)

(* re.compile(exp).sub(repl, s): every non-overlapping match, leftmost first,
   is replaced *)
sub(rule, s) ==
    SubFrom(rule, s, {j \in 1..Len(s) : MatchLen(rule, s, j) > 0}, 1)

(* uri_transforms[k] applied to s *)
uri_transforms(k, s) == sub(REWRITE_PATTERNS[k], s)

RECURSIVE reduce(_, _, _)
(* reduce(lambda path, transform: transform(path), ...) over the transforms
   lo .. hi in table order, starting from s.  The fold is taken in two
   halves, and the first half's result t is worked out (the test on its
   length) before the second half reads it; the transforms are applied in
   the same order as one after the other. *)
reduce(lo, hi, s) ==
    IF lo > hi THEN s
    ELSE IF lo = hi THEN uri_transforms(lo, s)
    ELSE LET mid == (lo + hi) \div 2
             t == reduce(lo, mid, s)
         IN  IF Len(t) >= 0 THEN reduce(mid + 1, hi, t) ELSE t

uri_to_path(u) == reduce(1, Len(REWRITE_PATTERNS), u)

----------------------------------------------------------------------------
(* str.split, str.join, str.replace, urllib.unquote *)

(* the positions of s at which t occurs *)
Occurrences(s, t) == {j \in 1..Len(s) : StartsWith(s, j, t)}

RECURSIVE SplitFrom(_, _, _, _)
(* s.split(sep) from s[i] on, M being the positions of sep in s *)
SplitFrom(s, sep, M, i) ==
    LET j == First(M, i)
    IN  IF j = 0 THEN <<SubSeq(s, i, Len(s))>>
        ELSE <<SubSeq(s, i, j - 1)>> \o SplitFrom(s, sep, M, j + Len(sep))

(* s.split(sep): the segments between the occurrences of sep, left to right *)
split(s, sep) == SplitFrom(s, sep, Occurrences(s, sep), 1)

RECURSIVE join(_, _)
(* sep.join(segs) *)
join(sep, segs) ==
    IF segs = <<>> THEN <<>>
    ELSE IF Len(segs) = 1 THEN segs[1]
    ELSE segs[1] \o sep \o join(sep, Tail(segs))

RECURSIVE ReplaceFrom(_, _, _, _, _)
ReplaceFrom(s, old, new, M, i) ==
    LET j == First(M, i)
    IN  IF j = 0 THEN SubSeq(s, i, Len(s))
        ELSE SubSeq(s, i, j - 1) \o new
                 \o ReplaceFrom(s, old, new, M, j + Len(old))

(* s.replace(old, new, 1): the first occurrence only *)
replace_first(s, old, new) ==
    LET j == First(Occurrences(s, old), 1)
    IN  IF j = 0 THEN s
        ELSE SubSeq(s, 1, j - 1) \o new \o SubSeq(s, j + Len(old), Len(s))

(* s.replace(old, new): one pass, left to right, over the occurrences of old
   in s; what the pass leaves is not looked at again *)
replace(s, old, new) == ReplaceFrom(s, old, new, Occurrences(s, old), 1)

HexUpper == <<"0", "1", "2", "3", "4", "5", "6", "7", "8", "9",
              "A", "B", "C", "D", "E", "F">>

HexLower == <<"0", "1", "2", "3", "4", "5", "6", "7", "8", "9",
              "a", "b", "c", "d", "e", "f">>

(* urllib's _hexdig *)
IsHexDig(c) == \E n \in 1..16 : HexUpper[n] = c \/ HexLower[n] = c

HexValue(c) == (CHOOSE n \in 1..16 : HexUpper[n] = c \/ HexLower[n] = c) - 1

(* the characters 0x20 .. 0x7E (0x60 is written \x60) *)
Printable ==
    << " ", "!", "\"", "#", "$", "%", "&", "'", "(", ")", "*", "+", ",", "-",
       ".", "/", "0", "1", "2", "3", "4", "5", "6", "7", "8", "9", ":", ";",
       "<", "=", ">", "?", "@", "A", "B", "C", "D", "E", "F", "G", "H", "I",
       "J", "K", "L", "M", "N", "O", "P", "Q", "R", "S", "T", "U", "V", "W",
       "X", "Y", "Z", "[", "\\", "]", "^", "_", "\\x60", "a", "b", "c", "d", "e",
       "f", "g", "h", "i", "j", "k", "l", "m", "n", "o", "p", "q", "r", "s",
       "t", "u", "v", "w", "x", "y", "z", "{", "|", "}", "~" >>

(* chr(16 * hi + lo); a byte outside 0x20 .. 0x7E is written \xHH *)
chr(hi, lo) ==
    LET n == 16 * hi + lo
    IN  IF n >= 32 /\ n <= 126 THEN Printable[n - 31]
        ELSE "\\x" \o HexLower[hi + 1] \o HexLower[lo + 1]

(* s has a % and two hex digits at position i *)
IsEscapeAt(s, i) ==
    /\ i + 2 <= Len(s) /\ s[i] = "%"
    /\ IsHexDig(s[i + 1]) /\ IsHexDig(s[i + 2])

RECURSIVE UnquoteFrom(_, _, _)
UnquoteFrom(s, M, i) ==
    LET j == First(M, i)
    IN  IF j = 0 THEN SubSeq(s, i, Len(s))
        ELSE SubSeq(s, i, j - 1)
                 \o <<chr(HexValue(s[j + 1]), HexValue(s[j + 2]))>>
                 \o UnquoteFrom(s, M, j + 3)

(* urllib.unquote: every % followed by two hex digits becomes the byte they
   name; any other % stays *)
unquote(s) == UnquoteFrom(s, {j \in 1..Len(s) : IsEscapeAt(s, j)}, 1)

(* map(unquote, segs) *)
map_unquote(segs) == [k \in 1..Len(segs) |-> unquote(segs[k])]

----------------------------------------------------------------------------
(* The two transforms *)

uri_to_fspath(u, sep) == join(sep, split(uri_to_path(u), <<"/">>))

fspath_to_uri(p, sep) ==
    replace(join(<<"/">>, map_unquote(split(p, sep))), Marker, <<>>)

----------------------------------------------------------------------------
(* The inputs *)

MaxLen == 4

MaxGroups == 3

RECURSIVE Strings(_, _)
(* the strings of at most n characters of chars *)
Strings(chars, n) ==
    IF n = 0 THEN {<<>>}
    ELSE LET S == Strings(chars, n - 1)
         IN  S \cup {Append(s, c) : s \in S, c \in chars}

(* the characters of the short URIs: an escape character, the marker's
   caret, the slash, an escaped and an unescaped splitting character, a hex
   digit that is also a digit of an escape, the hyphen *)
URICHARS == {"%", "^", "/", ":", "@", "5", "-"}

ShortUris == Strings(URICHARS, MaxLen)

MaxReservedLen == 2

(* the characters the table escapes wherever they stand, and a plain one *)
RESERVEDCHARS == {":", "!", "?", "#", "&", "$", "|", "*", "x"}

ReservedUris == Strings(RESERVEDCHARS, MaxReservedLen)

(* the doctest's URIs *)
DoctestItem ==
    <<"i", "t", "e", "m", "@", "2", "0", "1", "1", "-", "0", "2", "-", "1",
      "2", "T", "1", "6", ":", "3", "2", ":", "0", "0", "-", "0", "1", "0",
      "0", "/", "d", "a", "t", "a", "?", "r", "e", "v", "=", "1", "&", "l",
      "=", "1", "0", "0", "#", "m", "a", "i", "n">>

DoctestHttp ==
    <<"h", "t", "t", "p", ":", "/", "/", "a", "b", "c", "/", "d", "e", "f",
      ":", "g", "h", "i", "/", "j", "k", "l", "@", "m", "n", "o">>

DoctestPubl ==
    <<"h", "t", "t", "p", ":", "/", "/", "e", "x", "a", "m", "p", "l", "e",
      ".", "o", "r", "g", "/", "p", "u", "b", "l", "/", "a", "b", "c", ":",
      "x", "y", "z", "/", "r", "@", "2", "0", "1", "1", "-", "0", "2", "-",
      "1", "2", "T", "1", "6", ":", "3", "2", ":", "0", "0", ".", "0", "0",
      "0", "Z", "/", "d", "a", "t", "a", "?", "r", "e", "v", "=", "1", "&",
      "l", "=", "1", "0", "0", "#", "m", "a", "i", "n">>

DoctestUuid ==
    <<"0", "f", "7", "d", "4", "8", "e", "4", "-", "2", "2", "9", "2", "-",
      "1", "1", "e", "0", "-", "9", "5", "e", "e", "-", "0", "0", "2", "3",
      "3", "2", "c", "9", "4", "c", "b", "6">>

DoctestEscapes ==
    <<"h", "t", "t", "p", ":", "/", "/", "e", "x", "a", "m", "p", "l", "e",
      ".", "o", "r", "g", "/", "s", "o", "m", "e", "%", "2", "0", "e", "s",
      "c", "a", "p", "e", "s", "%", "2", "0", "(", "%", "3", "F", "%", ")">>

Doctests ==
    {DoctestItem, DoctestHttp, DoctestPubl, DoctestUuid, DoctestEscapes}

(* groups of lowercase hex digits of 4 characters or more *)
LongGroups ==
    {<<"0", "f", "7", "d">>, <<"2", "2", "9", "2">>,
     <<"1", "1", "e", "0", "a">>, <<"a", "b", "c", "d", "e", "f">>}

(* the last group may be shorter, or empty *)
LastGroups == LongGroups \cup {<<>>, <<"c">>, <<"0", "0", "2">>}

RECURSIVE UuidLike(_)
(* the URIs of at most n groups joined by hyphens, every group but the last
   of 4 characters or more *)
UuidLike(n) ==
    IF n = 1 THEN LastGroups
    ELSE LET U == UuidLike(n - 1)
         IN  U \cup {g \o <<"-">> \o u : g \in LongGroups, u \in U}

(* the fields of the timestamps *)
Years == {<<"2", "0", "1", "1">>, <<"1", "9", "9", "9">>}
MonthDays == {<<"0", "2", "-", "1", "2">>, <<"1", "1", "-", "3", "0">>}
HourMinutes == {<<"1", "6", ":", "3", "2">>, <<"0", "0", ":", "5", "9">>}
Seconds == {<<"0", "0">>, <<"5", "9">>}
Fractions == {<<>>, <<".", "0", "0", "0">>, <<".", "1", "2", "3">>}
Zones ==
    {<<"Z">>, <<"+", "0", "1", "0">>, <<"-", "0", "1", "0", "0">>,
     <<"+", "0", "1", "0", "0">>}
Befores == {<<>>, <<"r">>}
Afters == {<<>>, <<"/", "d">>}

(* YYYY-MM-DDThh:mm:ss[.mmm]TZ *)
Timestamps ==
    {y \o <<"-">> \o md \o <<"T">> \o hm \o <<":">> \o s \o f \o z :
        y \in Years, md \in MonthDays, hm \in HourMinutes, s \in Seconds,
        f \in Fractions, z \in Zones}

(* a timestamp that follows an @ and ends the URI or its path segment *)
TimestampUris ==
    {b \o <<"@">> \o t \o a : b \in Befores, t \in Timestamps, a \in Afters}

(* os.path.sep is the default pathsep *)
DefaultSep == <<"/">>

OtherSeps == {<<"\\">>, <<"-">>}

(* the arguments of test(uri) *)
TestInputs ==
    ((ShortUris \cup ReservedUris \cup Doctests \cup UuidLike(MaxGroups)
            \cup TimestampUris) \X {DefaultSep})
    \cup ((UuidLike(MaxGroups) \cup Doctests) \X OtherSeps)

(* the characters of the paths handed to fspath_to_uri with -f *)
PATHCHARS == {"^", "/", "%", "5", "E", "\\"}

PathInputs == Strings(PATHCHARS, MaxLen) \X ({DefaultSep} \cup {<<"\\">>})

----------------------------------------------------------------------------
(* The state machine *)

None == <<>>

Init ==
    /\ pc = "start"
    /\ path = None /\ path2 = None /\ newuri = None
    /\ \/ /\ mode = "test"
          /\ fspath = None
          /\ \E inp \in TestInputs : uri = inp[1] /\ pathsep = inp[2]
       \/ /\ mode = "-f"
          /\ uri = None
          /\ \E inp \in PathInputs : fspath = inp[1] /\ pathsep = inp[2]

(* fspath = uri_to_fspath(uri) *)
UriToFspath ==
    /\ pc = "start" /\ mode = "test"
    /\ path' = uri_to_path(uri)
    /\ fspath' = uri_to_fspath(uri, pathsep)
    /\ pc' = "forward"
    /\ UNCHANGED <<mode, uri, pathsep, path2, newuri>>

(* the rule table applied to its own output *)
UriToPathAgain ==
    /\ pc = "forward" /\ pathsep = DefaultSep
    /\ path2' = uri_to_path(path)
    /\ pc' = "again"
    /\ UNCHANGED <<mode, uri, pathsep, path, fspath, newuri>>

(* newuri = fspath_to_uri(fspath), after uri_to_fspath or on the -f argument *)
FspathToUri ==
    /\ \/ pc = "forward"
       \/ pc = "start" /\ mode = "-f"
    /\ newuri' = fspath_to_uri(fspath, pathsep)
    /\ pc' = "done"
    /\ UNCHANGED <<mode, uri, pathsep, path, fspath, path2>>

Next == UriToFspath \/ UriToPathAgain \/ FspathToUri

Spec == Init /\ [][Next]_vars

----------------------------------------------------------------------------
(* Properties *)

(* uri_to_fspath has returned: path and fspath are set *)
Forwarded == mode = "test" /\ pc # "start"

EndsWith(s, t) ==
    Len(t) <= Len(s) /\ SubSeq(s, Len(s) - Len(t) + 1, Len(s)) = t

(* C1: round trip.  For every URI u and the default separator,
   fspath_to_uri(uri_to_fspath(u)) = u. *)
RoundTrip ==
    (mode = "test" /\ pc = "done" /\ pathsep = DefaultSep) => newuri = uri

(* C2: segment legality.  For every URI and every pathsep, no segment that
   uri_to_fspath joins contains the separator, so splitting the returned
   path on the separator yields exactly those segments. *)
SegmentLegality ==
    Forwarded =>
        LET segs == split(path, <<"/">>)
        IN  /\ \A k \in 1..Len(segs) : ~Contains(segs[k], pathsep)
            /\ split(fspath, pathsep) = segs

(* C3 as stated: idempotent escaping.  Every %XX sequence of uri_to_path(u)
   appears unchanged in uri_to_path(uri_to_path(u)), and no %25 becomes
   %2525. *)
IdempotentEscaping ==
    pc = "again" =>
        /\ \A i \in 1..Len(path) :
               (path[i] = "%" /\ i + 2 <= Len(path))
                   => Contains(path2, SubSeq(path, i, i + 2))
        /\ Contains(path2, <<"%", "2", "5", "2", "5">>)
               => Contains(path, <<"%", "2", "5", "2", "5">>)

(* C3 as amended: one application escapes every % of its input exactly once
   (the result holds as many %25 as the input holds %, so the escapes the
   later rules insert are not escaped again), and a second application does
   the same to the first one's output: every %XX of uri_to_path(u) is %25XX
   in uri_to_path(uri_to_path(u)). *)
EscapedOncePerApplication ==
    /\ Forwarded => Count(path, <<"%", "2", "5">>) = Count(uri, <<"%">>)
    /\ pc = "again" =>
           /\ Count(path2, <<"%", "2", "5">>) = Count(path, <<"%">>)
           /\ \A i \in 1..Len(path) :
                  path[i] = "%" =>
                      /\ i + 2 <= Len(path)
                      /\ Contains(path2,
                             <<"%", "2", "5">> \o SubSeq(path, i + 1, i + 2))

(* the table was applied twice to a URI with a % and a character that a
   later rule escapes *)
EscapedTwiceReached ==
    pc = "again" /\ Contains(uri, <<"%">>) /\ Contains(uri, <<":">>)

(* the string fspath_to_uri strips the markers from *)
Decoded == join(<<"/">>, map_unquote(split(fspath, pathsep)))

(* C4 as stated: for every path and separator, the string fspath_to_uri
   returns contains no marker ^/. *)
ReverseDeletesEveryMarker == pc = "done" => ~Contains(newuri, Marker)

(* C4 as amended: fspath_to_uri deletes, in one pass, every ^/ of the
   decoded and rejoined string; what it returns contains a ^/ only where
   that pass brought a ^ and a / together, which takes a ^ right before a
   deleted marker (^^/ in the decoded string). *)
MarkerOnlyAfterCaret ==
    pc = "done" =>
        /\ Len(newuri) = Len(Decoded) - 2 * Count(Decoded, Marker)
        /\ Contains(newuri, Marker) => Contains(Decoded, <<"^", "^", "/">>)

(* fspath_to_uri has deleted two markers from a -f argument *)
MarkersDeletedReached ==
    /\ mode = "-f" /\ pc = "done"
    /\ Count(Decoded, Marker) >= 2
    /\ ~Contains(newuri, Marker)

(* u is made of groups of lowercase hex digits joined by hyphens, every
   group but the last of 4 characters or more *)
IsUuidLike(u) ==
    LET g == split(u, <<"-">>)
    IN  \A k \in 1..Len(g) :
            /\ \A i \in 1..Len(g[k]) : g[k][i] \in HEXLOWER
            /\ k < Len(g) => Len(g[k]) >= 4

(* every group but the last followed by -^, the last as it is *)
UuidSegments(u) ==
    LET g == split(u, <<"-">>)
    IN  [k \in 1..Len(g) |-> IF k < Len(g) THEN g[k] \o <<"-", "^">> ELSE g[k]]

(* C5: UUID-like splitting.  uri_to_fspath yields one segment per group,
   each group but the last followed by -^, the last group unchanged. *)
UuidLikeSplitting ==
    (Forwarded /\ IsUuidLike(uri)) =>
        /\ split(path, <<"/">>) = UuidSegments(uri)
        /\ fspath = join(pathsep, UuidSegments(uri))

(* uri_to_fspath has split a URI of three groups or more *)
UuidSplitReached ==
    /\ Forwarded /\ IsUuidLike(uri) /\ pathsep = DefaultSep
    /\ Len(split(uri, <<"-">>)) >= 3
    /\ Len(split(fspath, pathsep)) >= 3

(* u has n decimal digits at position i *)
TsDigits(u, i, n) == \A k \in 0..(n - 1) : IsDigitAt(u, i + k)

(* the length of the optional .mmm at u[i] *)
TsFractionLen(u, i) ==
    IF i <= Len(u) /\ u[i] = "." /\ TsDigits(u, i + 1, 3) THEN 4 ELSE 0

(* the length of the zone at u[i]: Z, or a sign and 3 or 4 digits *)
TsZoneLen(u, i) ==
    IF i > Len(u) THEN 0
    ELSE IF u[i] = "Z" THEN 1
    ELSE IF u[i] \in {"+", "-"}
         THEN IF TsDigits(u, i + 1, 4) THEN 5
              ELSE IF TsDigits(u, i + 1, 3) THEN 4 ELSE 0
         ELSE 0

(* the length of the timestamp YYYY-MM-DDThh:mm:ss[.mmm]TZ at u[i], 0 if
   there is none *)
TimestampLen(u, i) ==
    IF /\ i + 18 <= Len(u)
       /\ TsDigits(u, i, 4) /\ u[i + 4] = "-"
       /\ TsDigits(u, i + 5, 2) /\ u[i + 7] = "-"
       /\ TsDigits(u, i + 8, 2) /\ u[i + 10] = "T"
       /\ TsDigits(u, i + 11, 2) /\ u[i + 13] = ":"
       /\ TsDigits(u, i + 14, 2) /\ u[i + 16] = ":"
       /\ TsDigits(u, i + 17, 2)
    THEN LET f == TsFractionLen(u, i + 19)
             z == TsZoneLen(u, i + 19 + f)
         IN  IF z > 0 THEN 19 + f + z ELSE 0
    ELSE 0

(* u[a] is an @ followed by a timestamp that ends the URI or its path
   segment (a single slash follows) *)
TimestampAfterAt(u, a) ==
    LET e == a + TimestampLen(u, a + 1)
    IN  /\ u[a] = "@"
        /\ e > a
        /\ \/ e = Len(u)
           \/ u[e + 1] = "/" /\ ~(e + 2 <= Len(u) /\ u[e + 2] = "/")

(* the four segments of the timestamp after u[a] *)
TimestampSegments(u, a) ==
    << SubSeq(u, a + 1, a + 4) \o <<"-", "^">>,
       SubSeq(u, a + 6, a + 10) \o <<"^">>,
       SubSeq(u, a + 11, a + 13) \o <<"%", "3", "A">> \o SubSeq(u, a + 15, a + 16)
           \o <<"%", "3", "A", "^">>,
       SubSeq(u, a + 18, a + TimestampLen(u, a + 1)) >>

(* C6: timestamp splitting.  A timestamp YYYY-MM-DDThh:mm:ss[.mmm]TZ that
   follows an @ becomes the consecutive segments YYYY-^, MM-DD^,
   Thh%3Amm%3A^ and ss[.mmm]TZ: both colons escaped, a marker after the
   second only, no boundary between hh and mm. *)
TimestampSplitting ==
    Forwarded =>
        \A a \in 1..Len(uri) :
            TimestampAfterAt(uri, a) =>
                LET segs == split(path, <<"/">>)
                    k == Len(split(uri_to_path(SubSeq(uri, 1, a)), <<"/">>))
                IN  /\ Len(segs) >= k + 3
                    /\ SubSeq(segs, k, k + 3) = TimestampSegments(uri, a)
                    /\ fspath = join(pathsep, segs)

(* uri_to_fspath has split a timestamp with a fraction and a signed zone
   that a path segment follows *)
TimestampSplitReached ==
    /\ Forwarded
    /\ \E a \in 1..Len(uri) :
           /\ TimestampAfterAt(uri, a)
           /\ a + TimestampLen(uri, a + 1) < Len(uri)
    /\ Contains(uri, <<".">>) /\ Contains(uri, <<"+">>)
    /\ Contains(fspath, <<"%", "3", "A", "^", "/">>)

(* the positions of u at which a maximal run of structural delimiters ends *)
RunEnds(u) ==
    {j \in 1..Len(u) : InSplitRun(u, j) /\ (j = Len(u) \/ ~InSplitRun(u, j + 1))}

(* a delimiter as the result holds it *)
EscapedDelimiter(c) ==
    CASE c = ":" -> <<"%", "3", "A">>
      [] c = "!" -> <<"%", "2", "1">>
      [] c = "?" -> <<"%", "3", "F">>
      [] c = "#" -> <<"%", "2", "3">>
      [] c = "/" -> <<"%", "2", "F">>
      [] OTHER -> <<c>>

(* p ends with the escaped u[j], a marker, and the rewritten rest of u: the
   text after u[j] begins a segment of its own *)
BoundaryAfterRun(u, p, j) ==
    EndsWith(p, EscapedDelimiter(u[j]) \o Marker
                    \o uri_to_path(SubSeq(u, j + 1, Len(u))))

(* p ends with the escaped u[j], the caret of a marker whose slash was
   escaped together with the slash u[j + 1], and the rewritten rest *)
NoBoundaryBeforeSlash(u, p, j) ==
    EndsWith(p, EscapedDelimiter(u[j]) \o <<"^", "%", "2", "F", "%", "2", "F">>
                    \o uri_to_path(SubSeq(u, j + 2, Len(u))))

(* u[j] is the first colon of a time Thh:mm:ss[.mmm]TZ *)
FirstTimeColon(u, j) == j >= 4 /\ MatchTime(u, j - 3) > 0

(* C7 as stated: the text after a maximal run of structural delimiters
   begins a new segment of the result, whatever follows the run. *)
DelimitersStartSegment ==
    Forwarded => \A j \in RunEnds(uri) : BoundaryAfterRun(uri, path, j)

(* C7 as amended: the text after a maximal run of structural delimiters
   begins a new segment of the result, but for two cases: a run that a
   single slash follows gets no boundary (the marker's slash and that slash
   are escaped together, ^%2F%2F), and the first colon of a time
   Thh:mm:ss[.mmm]TZ is escaped and stays inside its segment. *)
DelimitersStartSegmentUnless ==
    Forwarded =>
        \A j \in RunEnds(uri) :
            IF j < Len(uri) /\ uri[j + 1] = "/"
            THEN NoBoundaryBeforeSlash(uri, path, j)
            ELSE FirstTimeColon(uri, j) \/ BoundaryAfterRun(uri, path, j)

(* uri_to_fspath has rewritten a URI with a run of slashes and a delimiter
   that text follows *)
DelimiterRunReached ==
    /\ Forwarded
    /\ \E j \in RunEnds(uri) :
           /\ j < Len(uri) /\ uri[j] = "/" /\ uri[j + 1] # "/"
           /\ j >= 3 /\ InSplitRun(uri, j - 1) /\ uri[j - 2] \in SPLITCHARS
           /\ BoundaryAfterRun(uri, path, j)

(* C8: marker non-collision.  No ^ of the input is left unescaped in
   uri_to_path's result: every ^ of the input is a %5E there, and every raw
   ^ of the result is the caret of an inserted marker (its slash follows,
   as it is or escaped with a following slash). *)
CaretsAreMarkers ==
    Forwarded =>
        /\ Count(path, <<"%", "5", "E">>) = Count(uri, <<"^">>)
        /\ \A i \in 1..Len(path) :
               path[i] = "^" =>
                   \/ StartsWith(path, i + 1, <<"/">>)
                   \/ StartsWith(path, i + 1, <<"%", "2", "F", "%", "2", "F">>)

(* the result holds an escaped caret of the input next to a marker *)
CaretAndMarkerReached ==
    /\ Forwarded
    /\ Contains(uri, <<"^", ":">>)
    /\ Contains(path, <<"%", "5", "E", "%", "3", "A", "^", "/">>)

RESERVED == {":", "!", "?", "#", "&", "$", "|", "*"}

ReservedEscape(c) ==
    CASE c = ":" -> <<"%", "3", "A">>
      [] c = "!" -> <<"%", "2", "1">>
      [] c = "?" -> <<"%", "3", "F">>
      [] c = "#" -> <<"%", "2", "3">>
      [] c = "&" -> <<"%", "2", "6">>
      [] c = "$" -> <<"%", "2", "4">>
      [] c = "|" -> <<"%", "7", "C">>
      [] c = "*" -> <<"%", "2", "A">>

(* C9: reserved characters.  uri_to_path's result contains none of
   : ! ? # & $ | * ; each occurrence in the input is replaced by its
   percent-escape. *)
NoReservedCharacter ==
    Forwarded =>
        /\ \A i \in 1..Len(path) : path[i] \notin RESERVED
        /\ \A c \in RESERVED : Count(path, ReservedEscape(c)) = Count(uri, <<c>>)

(* the result holds the escapes of two reserved characters of the input *)
ReservedEscapedReached ==
    /\ Forwarded
    /\ Contains(uri, <<"$">>) /\ Contains(uri, <<"?">>)
    /\ Contains(path, <<"%", "2", "4">>) /\ Contains(path, <<"%", "3", "F">>)

(* C10: no doubled slash.  uri_to_path's result contains no //, so of the
   segments uri_to_fspath joins only the first and the last can be empty. *)
NoDoubledSlash ==
    Forwarded =>
        /\ ~Contains(path, <<"/", "/">>)
        /\ LET segs == split(path, <<"/">>)
           IN  \A k \in 2..(Len(segs) - 1) : segs[k] # <<>>

(* the result of a URI with three slashes in a row *)
SlashesEscapedReached ==
    /\ Forwarded
    /\ Contains(uri, <<"/", "/", "/">>)
    /\ Contains(path, <<"%", "2", "F", "%", "2", "F", "%", "2", "F">>)

=============================================================================
